---------------------------- MODULE Spec2Model ----------------------------
(***************************************************************************)
(* A model of the WhatsApp chat analyzer: the transcript parser            *)
(* preprocess_chat (src/utils.py) and the upload handling of the           *)
(* Streamlit script (src/app.py).                                          *)
(*                                                                         *)
(* A byte is a number in 0..255, a character is its Unicode code point,    *)
(* a byte buffer and a text are sequences of those.                        *)
(***************************************************************************)
EXTENDS Integers, Sequences, FiniteSets, TLC

(***************************************************************************)
(* Characters                                                              *)
(***************************************************************************)

\* The ASCII characters 32..90 (space to "Z") and 97..122 ("a" to "z"), in
\* code-point order.
AsciiLow ==
  << " ", "!", "\"", "#", "$", "%", "&", "'", "(", ")", "*", "+", ",", "-", ".", "/",
     "0", "1", "2", "3", "4", "5", "6", "7", "8", "9", ":", ";", "<", "=", ">", "?",
     "@", "A", "B", "C", "D", "E", "F", "G", "H", "I", "J", "K", "L", "M", "N", "O",
     "P", "Q", "R", "S", "T", "U", "V", "W", "X", "Y", "Z" >>

AsciiLetters ==
  << "a", "b", "c", "d", "e", "f", "g", "h", "i", "j", "k", "l", "m", "n", "o",
     "p", "q", "r", "s", "t", "u", "v", "w", "x", "y", "z" >>

\* The code point of a one-character string ("\n" is the line feed).
Ord(c) ==
  IF c = "\n" THEN 10
  ELSE IF \E i \in DOMAIN AsciiLow : AsciiLow[i] = c
    THEN 31 + (CHOOSE i \in DOMAIN AsciiLow : AsciiLow[i] = c)
    ELSE 96 + (CHOOSE i \in DOMAIN AsciiLetters : AsciiLetters[i] = c)

\* The text (code points) written as a tuple of one-character strings.
Txt(w) == [i \in DOMAIN w |-> Ord(w[i])]

\* The element of a set of one element.
The(S) == CHOOSE x \in S : TRUE

\* s[a..b] as a sequence (empty when b < a).
Slice(s, a, b) == [i \in 1..(b - a + 1) |-> s[a + i - 1]]

\* The concatenation of a sequence of sequences.
Flatten(ss) ==
  LET cat[r \in (1..(Len(ss) + 1)) \X (0..Len(ss))] ==
        IF r[1] > r[2] THEN << >>
        ELSE IF r[1] = r[2] THEN ss[r[1]]
        ELSE cat[<<r[1], (r[1] + r[2]) \div 2>>]
               \o cat[<<((r[1] + r[2]) \div 2) + 1, r[2]>>]
  IN  cat[<<1, Len(ss)>>]

(***************************************************************************)
(* Decoding: bytes.decode('utf-8'), 'utf-8-sig', 'latin-1'                 *)
(* (errors='strict').  A decoding is [ok |-> BOOLEAN, text |-> code points]*)
(***************************************************************************)

DecodeError == [ok |-> FALSE, text |-> << >>]

IsCont(b) == b \in 128..191

\* The length of the well-formed UTF-8 sequence that starts at b[i], 0 when
\* there is none (a stray continuation byte, a truncated or overlong
\* sequence, a surrogate, a code point above U+10FFFF).
Utf8SeqLen(b, i) ==
  LET n == Len(b)
      c0 == b[i]
      c1 == IF i + 1 <= n THEN b[i + 1] ELSE -1
      c2 == IF i + 2 <= n THEN b[i + 2] ELSE -1
      c3 == IF i + 3 <= n THEN b[i + 3] ELSE -1
  IN  IF c0 <= 127 THEN 1
      ELSE IF c0 \in 194..223 THEN (IF IsCont(c1) THEN 2 ELSE 0)
      ELSE IF c0 = 224 THEN (IF c1 \in 160..191 /\ IsCont(c2) THEN 3 ELSE 0)
      ELSE IF c0 = 237 THEN (IF c1 \in 128..159 /\ IsCont(c2) THEN 3 ELSE 0)
      ELSE IF c0 \in 225..239 THEN (IF IsCont(c1) /\ IsCont(c2) THEN 3 ELSE 0)
      ELSE IF c0 = 240
        THEN (IF c1 \in 144..191 /\ IsCont(c2) /\ IsCont(c3) THEN 4 ELSE 0)
      ELSE IF c0 \in 241..243
        THEN (IF IsCont(c1) /\ IsCont(c2) /\ IsCont(c3) THEN 4 ELSE 0)
      ELSE IF c0 = 244
        THEN (IF c1 \in 128..143 /\ IsCont(c2) /\ IsCont(c3) THEN 4 ELSE 0)
      ELSE 0

\* The code point of the well-formed UTF-8 sequence of k bytes at b[i].
Utf8CodePoint(b, i, k) ==
  IF k = 1 THEN b[i]
  ELSE IF k = 2 THEN (b[i] - 192) * 64 + (b[i + 1] - 128)
  ELSE IF k = 3
    THEN (b[i] - 224) * 4096 + (b[i + 1] - 128) * 64 + (b[i + 2] - 128)
  ELSE (b[i] - 240) * 262144 + (b[i + 1] - 128) * 4096
       + (b[i + 2] - 128) * 64 + (b[i + 3] - 128)

\* The bytes from b[i] on are well-formed UTF-8 sequences: b[i] starts one,
\* and after each sequence the text ends or the next sequence starts.  (A
\* sequence starts at each byte that is no continuation byte, and only
\* there.)
Utf8Valid(b, i) ==
  \/ i > Len(b)
  \/ /\ ~IsCont(b[i])
     /\ \A j \in i..Len(b) :
          ~IsCont(b[j])
            => /\ Utf8SeqLen(b, j) # 0
               /\ \/ j + Utf8SeqLen(b, j) > Len(b)
                  \/ ~IsCont(b[j + Utf8SeqLen(b, j)])

\* The code points of the well-formed UTF-8 bytes from b[i] on, one for each
\* byte that starts a sequence.
Utf8Text(b, i) ==
  LET StartsSeq(j) == ~IsCont(b[j])
      starts == SelectSeq([k \in 1..(Len(b) - i + 1) |-> i + k - 1], StartsSeq)
  IN  [k \in DOMAIN starts |->
         Utf8CodePoint(b, starts[k], Utf8SeqLen(b, starts[k]))]

\* The strict UTF-8 decoding of the bytes from b[i] on: UnicodeDecodeError
\* at the first byte that starts no well-formed sequence.
Utf8From(b, i) ==
  IF Utf8Valid(b, i) THEN [ok |-> TRUE, text |-> Utf8Text(b, i)]
  ELSE DecodeError

\* b.decode('utf-8'): a leading byte-order mark stays, as U+FEFF.
DecodeUtf8(b) == Utf8From(b, 1)

\* b.decode('utf-8-sig'): a leading EF BB BF is skipped, the rest is UTF-8.
DecodeUtf8Sig(b) ==
  IF Len(b) >= 3 /\ b[1] = 239 /\ b[2] = 187 /\ b[3] = 191
    THEN Utf8From(b, 4)
    ELSE Utf8From(b, 1)

\* b.decode('latin-1'): every byte is its own code point; it never fails.
DecodeLatin1(b) == [ok |-> TRUE, text |-> b]

(***************************************************************************)
(* The regular expressions of preprocess_chat, matched as re.findall       *)
(* matches them with re.DOTALL.  A position is the index of the next       *)
(* character to read, Len(s) + 1 at the end of the text; a pattern element *)
(* maps the set of positions it may start at to the set it may end at.     *)
(***************************************************************************)

\* s[i], or -1 outside the text.
At(s, i) == IF i \in 1..Len(s) THEN s[i] ELSE -1

\* \d on a str pattern: the decimal digits (the ASCII ones, below U+0660).
IsDigit(c) == c \in 48..57

\* \s on a str pattern, and str.isspace: the Unicode whitespace.
IsSpace(c) ==
  c \in (9..13) \cup (28..32) \cup {133, 160, 5760} \cup (8192..8202)
        \cup {8232, 8233, 8239, 8287, 12288}

\* \d{lo,hi}
Digits(s, P, lo, hi) ==
  UNION { { p + k : k \in { n \in lo..hi :
                            \A j \in 0..(n - 1) : IsDigit(At(s, p + j)) } }
          : p \in P }

\* One character out of the set C.
Ch(s, P, C) == { p + 1 : p \in { q \in P : At(s, q) \in C } }

\* \s
Sp(s, P) == { p + 1 : p \in { q \in P : IsSpace(At(s, q)) } }

\* \d{1,2}/\d{1,2}/\d{2,4},\s\d{1,2}:\d{2}(?::\d{2})?  and, in the AM/PM
\* dialect, \s[APap][Mm] : the positions where a timestamp that starts at i
\* may end.
TimestampEnds(s, i, ampm) ==
  LET d1 == Ch(s, Digits(s, {i}, 1, 2), {Ord("/")})
      d2 == Ch(s, Digits(s, d1, 1, 2), {Ord("/")})
      d3 == Ch(s, Digits(s, d2, 2, 4), {Ord(",")})
      t1 == Ch(s, Digits(s, Sp(s, d3), 1, 2), {Ord(":")})
      t2 == Digits(s, t1, 2, 2)
      t3 == t2 \cup Digits(s, Ch(s, t2, {Ord(":")}), 2, 2)
  IN  IF ~IsDigit(At(s, i)) THEN {}
      ELSE IF ampm
        THEN Ch(s, Ch(s, Sp(s, t3), {Ord("A"), Ord("P"), Ord("a"), Ord("p")}),
                {Ord("M"), Ord("m")})
        ELSE t3

\* \s-\s
SeparatorEnds(s, P) == Sp(s, Ch(s, Sp(s, P), {Ord("-")}))

\* A look-ahead that takes every line feed for a boundary, as a parser that
\* splits the transcript into lines would.
LookaheadAnyLine(s, q, ampm) ==
  \/ q = Len(s) + 1
  \/ At(s, q) = 10

\* A look-ahead that is not anchored to a line start: a timestamp and its
\* separator anywhere end the body.
LookaheadUnanchored(s, q, ampm) ==
  \/ q = Len(s) + 1
  \/ q = Len(s) /\ s[q] = 10
  \/ SeparatorEnds(s, TimestampEnds(s, q, ampm)) # {}

\* (?=\n<timestamp>\s-\s|$) at position q.  Without re.MULTILINE, $ matches
\* at the end of the text and before a line feed that ends the text.
Lookahead(s, q, ampm) ==
  \/ q = Len(s) + 1
  \/ q = Len(s) /\ s[q] = 10
  \/ /\ At(s, q) = 10
     /\ SeparatorEnds(s, TimestampEnds(s, q + 1, ampm)) # {}

\* The least element of a non-empty set of numbers.
Min(S) == CHOOSE x \in S : \A y \in S : x <= y

\* (.*?):\s  the lazy user label ends at the first ':' from p on that a
\* whitespace follows (0 when there is none).
FirstColon(s, p) ==
  LET C == { c \in p..(Len(s) - 1) : s[c] = Ord(":") /\ IsSpace(s[c + 1]) }
  IN  IF C = {} THEN 0 ELSE Min(C)

\* (.*?)(?=...)  the lazy message body ends at the first position from q on
\* where the lookahead holds; the end of the text is one.
FirstBoundary(s, q, ampm) ==
  Min({ b \in q..(Len(s) + 1) : Lookahead(s, b, ampm) })

NoMatch == [found |-> FALSE, groups |-> << >>, end |-> 0]

\* The positions after "<timestamp>\s-\s" for a match that starts at i.
HeaderEnds(s, i, ampm) == SeparatorEnds(s, TimestampEnds(s, i, ampm))

\* The match of the whole pattern that starts at i: its three groups
\* (timestamp, user, message) and the position after it.  The body always
\* finds a boundary (the end of the text), so the match exists as soon as
\* the header and a ": " after it do.
MatchAt(s, i, ampm) ==
  LET E   == { e \in TimestampEnds(s, i, ampm) : SeparatorEnds(s, {e}) # {} }
      e   == CHOOSE x \in E : TRUE
      u   == CHOOSE x \in SeparatorEnds(s, {e}) : TRUE
      c   == FirstColon(s, u)
      q   == FirstBoundary(s, c + 2, ampm)
  IN  IF E = {} THEN NoMatch
      ELSE IF c = 0 THEN NoMatch
      ELSE [found  |-> TRUE,
            groups |-> << Slice(s, i, e - 1), Slice(s, u, c - 1),
                          Slice(s, c + 2, q - 1) >>,
            end    |-> q]

\* The start positions from pos on at which the pattern matches.
MatchStarts(s, pos, ampm) ==
  { i \in pos..Len(s) :
      /\ HeaderEnds(s, i, ampm) # {}
      /\ FirstColon(s, Min(HeaderEnds(s, i, ampm))) # 0 }

\* The scan of re.findall: the leftmost match from pos on, then on from its
\* end (a match is never empty).
Scan(s, pos, ampm) ==
  LET scan[p \in 1..(Len(s) + 1)] ==
        LET starts == MatchStarts(s, p, ampm)
            m      == MatchAt(s, Min(starts), ampm)
        IN  IF starts = {} THEN << >>
            ELSE <<m.groups>> \o scan[m.end]
  IN  scan[pos]

\* A pattern: the parentheses of its source text in order (those that are
\* neither escaped nor in a character class), and its dialect.
\* Line 34:  (ts(?:..)?..)\s-\s(.*?):\s(.*?)(?=\n..(?:..)?..\s-\s|$)
PrimaryPattern ==
  [parens |-> << "(", "(", ")", ")", "(", ")", "(", ")", "(", "(", ")", ")" >>,
   ampm   |-> TRUE]

\* Line 39:  (ts(?:..)?)\s-\s(.*?):\s(.*?)(?=\n..(?:..)?)\s-\s|$)
\* The look-ahead is closed before \s-\s|$, so the last ")" closes nothing.
AlternatePattern ==
  [parens |-> << "(", "(", ")", ")", "(", ")", "(", ")", "(", "(", ")", ")", ")" >>,
   ampm   |-> FALSE]

\* The nesting depth after the first n parentheses of a pattern; re.compile
\* rejects a pattern in which a ")" closes nothing or a "(" stays open.
Depth(parens, n) ==
  LET depth[k \in 0..Len(parens)] ==
        IF k = 0 THEN 0
        ELSE depth[k - 1] + (IF parens[k] = "(" THEN 1 ELSE -1)
  IN  depth[n]

Compiles(pattern) ==
  /\ \A n \in 1..Len(pattern.parens) : Depth(pattern.parens, n) >= 0
  /\ Depth(pattern.parens, Len(pattern.parens)) = 0

\* re.findall(pattern, content, re.DOTALL): re.error when the pattern does
\* not compile, else the list of the matches' group tuples.
ReFindall(pattern, content) ==
  IF Compiles(pattern)
    THEN [raised |-> FALSE, matches |-> Scan(content, 1, pattern.ampm)]
    ELSE [raised |-> TRUE, matches |-> << >>]

(***************************************************************************)
(* pd.to_datetime(df['timestamp'], errors='coerce') on one matched         *)
(* timestamp string: month/day/year (dayfirst is False), a 12-hour clock   *)
(* when an AM/PM marker follows the time.  The transcripts of this model   *)
(* keep the first date field at most 12 and the year in two digits outside *)
(* 69..76, where every pandas version reads the string the same way.       *)
(***************************************************************************)

\* The number written by the digits s[a..b].
Num(s, a, b) ==
  LET num[k \in (a - 1)..b] ==
        IF k < a THEN 0 ELSE num[k - 1] * 10 + (s[k] - 48)
  IN  num[b]

\* The first index from i on at which s holds the character c.
IndexFrom(s, c, i) == Min({ k \in i..Len(s) : s[k] = c })

IsLeap(y) == (y % 4 = 0 /\ y % 100 # 0) \/ y % 400 = 0

DaysInMonth(y, m) ==
  IF m = 2 THEN (IF IsLeap(y) THEN 29 ELSE 28)
  ELSE IF m \in {4, 6, 9, 11} THEN 30 ELSE 31

NaT ==
  [nat |-> TRUE, year |-> 0, month |-> 0, day |-> 0,
   hour |-> 0, minute |-> 0, second |-> 0]

ToDatetime(ts) ==
  LET k1     == IndexFrom(ts, Ord("/"), 1)
      k2     == IndexFrom(ts, Ord("/"), k1 + 1)
      k3     == IndexFrom(ts, Ord(","), k2 + 1)
      k4     == IndexFrom(ts, Ord(":"), k3 + 1)
      month  == Num(ts, 1, k1 - 1)
      day    == Num(ts, k1 + 1, k2 - 1)
      yy     == Num(ts, k2 + 1, k3 - 1)
      year   == IF k3 - k2 - 1 = 2
                  THEN (IF yy <= 68 THEN 2000 + yy ELSE 1900 + yy)
                  ELSE yy
      h      == Num(ts, k3 + 2, k4 - 1)
      minute == Num(ts, k4 + 1, k4 + 2)
      hasSec == At(ts, k4 + 3) = Ord(":")
      second == IF hasSec THEN Num(ts, k4 + 4, k4 + 5) ELSE 0
      marked == At(ts, Len(ts)) \in {Ord("M"), Ord("m")}
      pm     == marked /\ At(ts, Len(ts) - 1) \in {Ord("P"), Ord("p")}
      hour   == IF ~marked THEN h
                ELSE IF pm THEN (IF h = 12 THEN 12 ELSE h + 12)
                ELSE (IF h = 12 THEN 0 ELSE h)
      valid  == /\ month \in 1..12
                /\ year >= 1
                /\ day \in 1..DaysInMonth(year, month)
                /\ IF marked THEN h \in 1..12 ELSE h \in 0..23
                /\ minute \in 0..59
                /\ second \in 0..59
  IN  IF valid
        THEN [nat |-> FALSE, year |-> year, month |-> month, day |-> day,
              hour |-> hour, minute |-> minute, second |-> second]
        ELSE NaT

(***************************************************************************)
(* preprocess_chat (src/utils.py)                                          *)
(***************************************************************************)

\* str.strip(): the text without its leading and trailing whitespace.
Strip(s) ==
  LET K == { k \in 1..Len(s) : ~IsSpace(s[k]) }
  IN  IF K = {} THEN << >>
      ELSE Slice(s, Min(K), CHOOSE k \in K : \A j \in K : j <= k)

\* The decodings tried in another order: Latin-1, which never fails, first.
ReadContentLatin1First(b) ==
  IF DecodeLatin1(b).ok THEN DecodeLatin1(b)
  ELSE IF DecodeUtf8(b).ok THEN DecodeUtf8(b)
  ELSE DecodeUtf8Sig(b)

\* Only UTF-8 tried: None for every other buffer.
ReadContentUtf8Only(b) ==
  IF DecodeUtf8(b).ok THEN DecodeUtf8(b) ELSE DecodeError

\* Lines 22-31: the first of the three decodings that succeeds; when none
\* does the function returns None.
ReadContent(b) ==
  IF DecodeUtf8(b).ok THEN DecodeUtf8(b)
  ELSE IF DecodeUtf8Sig(b).ok THEN DecodeUtf8Sig(b)
  ELSE IF DecodeLatin1(b).ok THEN DecodeLatin1(b)
  ELSE DecodeError

\* Lines 34-40: the AM/PM pattern, and the pattern without AM/PM when the
\* first finds nothing.
FindMatches(content) ==
  The({ IF first.raised \/ first.matches # << >> THEN first
        ELSE ReFindall(AlternatePattern, content)
        : first \in {ReFindall(PrimaryPattern, content)} })

\* Lines 46-49: one row per match, the timestamp converted.
Rows(matches) ==
  [k \in DOMAIN matches |->
     [timestamp |-> ToDatetime(matches[k][1]),
      user      |-> matches[k][2],
      message   |-> matches[k][3]]]

\* No row is dropped: the dropna of line 52 left out.
KeepsNaT(row) == TRUE

NotNaT(row) == ~row.timestamp.nat

\* What re.IGNORECASE folds a character to before it is compared with a
\* letter of the media vocabulary: the capitals, and the four characters
\* beyond ASCII that match "i", "s" and "k" (U+0130, U+0131, U+017F, U+212A).
Fold(c) ==
  IF c \in 65..90 THEN c + 32
  ELSE IF c \in {304, 305} THEN 105
  ELSE IF c = 383 THEN 115
  ELSE IF c = 8490 THEN 107
  ELSE c

\* Line 55: the alternatives of the pattern.
MediaVocabulary ==
  { Txt(<<"<","M","e","d","i","a"," ","o","m","i","t","t","e","d",">">>),
    Txt(<<"i","m","a","g","e"," ","o","m","i","t","t","e","d">>),
    Txt(<<"v","i","d","e","o"," ","o","m","i","t","t","e","d">>),
    Txt(<<"s","t","i","c","k","e","r"," ","o","m","i","t","t","e","d">>) }

\* The phrase stands in the text at index i, letter case ignored.
PhraseAt(text, i, phrase) ==
  /\ i + Len(phrase) - 1 <= Len(text)
  /\ \A j \in 1..Len(phrase) : Fold(text[i + j - 1]) = Fold(phrase[j])

\* The search with the letter case kept (case=False left out).
HasMediaCaseSensitive(message) ==
  \E phrase \in MediaVocabulary :
    \E i \in 1..Len(message) :
      /\ i + Len(phrase) - 1 <= Len(message)
      /\ \A j \in 1..Len(phrase) : message[i + j - 1] = phrase[j]

\* Line 55: str.contains(vocabulary, case=False), a search of the pattern
\* anywhere in the message.
HasMedia(message) ==
  \E phrase \in MediaVocabulary :
    \E i \in 1..Len(message) : PhraseAt(message, i, phrase)

\* "http://" or "https://" and one character that is no whitespace stand
\* in the message at index i.
UrlAt(message, i) ==
    \E scheme \in { Txt(<<"h","t","t","p",":","/","/">>),
                    Txt(<<"h","t","t","p","s",":","/","/">>) } :
      /\ i + Len(scheme) <= Len(message)
      /\ \A j \in 1..Len(scheme) : message[i + j - 1] = scheme[j]
      /\ ~IsSpace(message[i + Len(scheme)])

\* The link looked for at the start of the message only (str.match).
HasUrlAtStart(message) == UrlAt(message, 1)

\* Lines 58-59: str.contains(r'(https?://[^\s]+)'), a search anywhere in
\* the message.
HasUrl(message) == \E i \in 1..Len(message) : UrlAt(message, i)

\* The characters of the message that are no whitespace, counted.
LengthWithoutWhitespace(message) ==
  Cardinality({ i \in DOMAIN message : ~IsSpace(message[i]) })

\* Line 66: str.len(), the number of characters (code points).
MessageLength(message) == Len(message)

\* The one-character keys of emoji.EMOJI_DATA among the characters that the
\* transcripts of this model hold: the copyright and registered signs, the
\* medium skin tone modifier (U+1F3FD), thumbs up (U+1F44D) and the grinning
\* face (U+1F600).  The zero width joiner (U+200D), the letters, the digits
\* and the punctuation are no keys.
EMOJI_DATA == {169, 174, 127997, 128077, 128512}

InEmojiData(c) == c \in EMOJI_DATA

\* The emojis of a message counted once each, as a set of the distinct ones
\* listed in the order of their first appearance.
EmojisDistinct(message) ==
  LET first == { i \in DOMAIN message :
                   /\ InEmojiData(message[i])
                   /\ \A j \in 1..(i - 1) : message[j] # message[i] }
      pick[k \in 0..Len(message)] ==
        IF k = 0 THEN << >>
        ELSE IF k \in first THEN Append(pick[k - 1], message[k])
        ELSE pick[k - 1]
  IN  pick[Len(message)]

\* Line 62: [c for c in text if c in emoji.EMOJI_DATA]
Emojis(message) == SelectSeq(message, InEmojiData)

MonthNames ==
  << "January", "February", "March", "April", "May", "June", "July",
     "August", "September", "October", "November", "December" >>

DayNames ==
  << "Monday", "Tuesday", "Wednesday", "Thursday", "Friday", "Saturday",
     "Sunday" >>

\* The proleptic Gregorian ordinal of a date (1 is January 1 of year 1).
Ordinal(y, m, d) ==
  LET before[k \in 0..12] ==
        IF k = 0 THEN 0 ELSE before[k - 1] + DaysInMonth(y, k)
  IN  (y - 1) * 365 + ((y - 1) \div 4) - ((y - 1) \div 100)
        + ((y - 1) \div 400) + before[m - 1] + d

\* The weekday counted from Sunday, not from Monday.
DayNameFromSunday(ts) ==
  DayNames[(Ordinal(ts.year, ts.month, ts.day) % 7) + 1]

\* Line 70: dt.day_name(); Monday is the first weekday.
DayName(ts) ==
  DayNames[((Ordinal(ts.year, ts.month, ts.day) + 6) % 7) + 1]

\* Lines 69-73 on a row whose timestamp is NaT: the missing values.
NoCalendar ==
  [date |-> [year |-> 0, month |-> 0, day |-> 0], day |-> "NaN",
   hour |-> -1, month |-> "NaN", year |-> 0]

\* Lines 69-73: dt.date, dt.day_name(), dt.hour, dt.month_name(), dt.year
Calendar(ts) ==
  IF ts.nat THEN NoCalendar
  ELSE [date  |-> [year |-> ts.year, month |-> ts.month, day |-> ts.day],
        day   |-> DayName(ts),
        hour  |-> ts.hour,
        month |-> MonthNames[ts.month],
        year  |-> ts.year]

\* The user label as it was matched: line 76 left out.
Unstripped(user) == user

\* Line 76: str.strip() on the user label.
StripUser(user) == Strip(user)

\* Lines 55-76 on one row: the feature columns, the calendar columns and
\* the user label stripped.
Cleaned(row) ==
  The({ [timestamp      |-> row.timestamp,
         user           |-> StripUser(row.user),
         message        |-> row.message,
         has_media      |-> HasMedia(row.message),
         has_url        |-> HasUrl(row.message),
         emojis         |-> emojis,
         emoji_count    |-> Len(emojis),
         message_length |-> MessageLength(row.message),
         date           |-> cal.date,
         day            |-> cal.day,
         hour           |-> cal.hour,
         month          |-> cal.month,
         year           |-> cal.year]
        : emojis \in {Emojis(row.message)}, cal \in {Calendar(row.timestamp)} })

\* The table with the rows of NaT timestamp kept (null-filled, not dropped).
BuildFrameNoDrop(matches) ==
  [k \in DOMAIN matches |-> Cleaned(Rows(matches)[k])]

\* Lines 46-78: the table built from the matches; the rows whose timestamp
\* is NaT are dropped (line 52).
BuildFrame(matches) ==
  LET kept == SelectSeq(Rows(matches), NotNaT)
  IN  [k \in DOMAIN kept |-> Cleaned(kept[k])]

\* An uploaded file (a BytesIO): its buffer and its read position, the
\* number of bytes already read.
NoFile == [some |-> FALSE, bytes |-> << >>, pos |-> 0]
File(b) == [some |-> TRUE, bytes |-> b, pos |-> 0]

\* file.read(): the bytes from the read position on; the position moves to
\* the end of the buffer.
Read(file) ==
  [data |-> Slice(file.bytes, file.pos + 1, Len(file.bytes)),
   file |-> [file EXCEPT !.pos = Len(file.bytes)]]

\* The buffer taken with read() instead: from the read position on.
ReadFromPosition(file) == Read(file)

\* file.getvalue(): the whole buffer, wherever the read position is; the
\* position stays.
GetValue(file) == [data |-> file.bytes, file |-> file]

\* A call of preprocess_chat at its exit: how it ended (kind is "None",
\* "DataFrame" or "raise"), the value or the error, and its locals
\* (decoded: content was assigned; scanned: re.findall was called on it).
Exit(kind, df, error, decoded, scanned, content, matches) ==
  [kind |-> kind, df |-> df, error |-> error, decoded |-> decoded,
   scanned |-> scanned, content |-> content, matches |-> matches]

\* The file object as a call of preprocess_chat leaves it: lines 23, 26 and
\* 29 read it with getvalue().
FileAfter(file_upload) ==
  IF ~file_upload.some THEN file_upload ELSE GetValue(file_upload).file

\* Lines 33-78, with the decoded content.
ParseContent(content) ==
  The({ IF found.raised
          THEN Exit("raise", << >>, "re.error", TRUE, TRUE, content, << >>)
        ELSE IF found.matches = << >>
          THEN Exit("None", << >>, "", TRUE, TRUE, content, << >>)
        ELSE Exit("DataFrame", BuildFrame(found.matches), "", TRUE, TRUE,
                  content, found.matches)
        : found \in {FindMatches(content)} })

preprocess_chat(file_upload) ==
  IF ~file_upload.some
    THEN Exit("None", << >>, "", FALSE, FALSE, << >>, << >>)
  ELSE
    The({ IF ~read.ok
            THEN Exit("None", << >>, "", FALSE, FALSE, << >>, << >>)
            ELSE ParseContent(read.text)
          : read \in {ReadContent(GetValue(file_upload).data)} })

(***************************************************************************)
(* The files a user may upload: transcripts of at most MaxBlocks message   *)
(* blocks in one dialect, written in one of the three encodings, and raw   *)
(* byte buffers of at most MaxRawLen bytes.                                *)
(***************************************************************************)

MaxBlocks == 2
MaxRawLen == 3

Dialects == {"AM/PM", "24h"}

\* The timestamp header of a block in the block's dialect: a well-formed
\* date and time ("ok": Monday, January 2, 2023; "leap": the first minute of
\* February 29, 2024; "eve": the last of December 31, 1999; "noon": half
\* past noon on March 1, 2023; "late": the last minute of Sunday, January 1,
\* 2023), or one no calendar holds ("bad": January 32).
HeaderText(dialect, ts) ==
  IF dialect = "AM/PM"
    THEN CASE ts = "ok"   -> Txt(<<"1","/","2","/","2","3",","," ","9",":","0","5"," ","A","M">>)
           [] ts = "bad"  -> Txt(<<"1","/","3","2","/","2","3",","," ","9",":","0","5"," ","A","M">>)
           [] ts = "leap" -> Txt(<<"2","/","2","9","/","2","4",","," ","1","2",":","0","0"," ","A","M">>)
           [] ts = "eve"  -> Txt(<<"1","2","/","3","1","/","9","9",","," ","1","1",":","5","9"," ","P","M">>)
           [] ts = "noon" -> Txt(<<"3","/","1","/","2","3",","," ","1","2",":","3","0"," ","P","M">>)
           [] ts = "late" -> Txt(<<"1","/","1","/","2","3",","," ","1","1",":","5","9"," ","P","M">>)
    ELSE CASE ts = "ok"   -> Txt(<<"1","/","2","/","2","3",","," ","9",":","0","5">>)
           [] ts = "bad"  -> Txt(<<"1","/","3","2","/","2","3",","," ","9",":","0","5">>)
           [] ts = "leap" -> Txt(<<"2","/","2","9","/","2","4",","," ","0",":","0","0">>)
           [] ts = "eve"  -> Txt(<<"1","2","/","3","1","/","9","9",","," ","2","3",":","5","9">>)
           [] ts = "noon" -> Txt(<<"3","/","1","/","2","3",","," ","1","2",":","3","0">>)

UserLabels == { Txt(<<"A">>), Txt(<<"B">>) }

\* Message bodies: one line, two lines, and one character outside ASCII
\* (233 is U+00E9).
Bodies == { Txt(<<"h","i">>), Txt(<<"a","\n","b">>), <<233>> }

Blocks == [ts : {"ok", "bad"}, user : UserLabels, body : Bodies]

\* header, " - ", user label, ": ", body
BlockText(dialect, blk) ==
  HeaderText(dialect, blk.ts) \o Txt(<<" ","-"," ">>) \o blk.user
    \o Txt(<<":"," ">>) \o blk.body

\* The blocks one per line, with or without a line feed after the last.
Joined(dialect, blocks) ==
  LET lines[k \in 1..Len(blocks)] ==
        IF k = 1 THEN BlockText(dialect, blocks[1])
        ELSE lines[k - 1] \o <<10>> \o BlockText(dialect, blocks[k])
  IN  lines[Len(blocks)]

Render(dialect, blocks, newline) ==
  Joined(dialect, blocks) \o (IF newline THEN <<10>> ELSE << >>)

\* The UTF-8 bytes of a code point.
Utf8Bytes(c) ==
  IF c < 128 THEN <<c>>
  ELSE IF c < 2048 THEN <<192 + (c \div 64), 128 + (c % 64)>>
  ELSE IF c < 65536
    THEN <<224 + (c \div 4096), 128 + ((c \div 64) % 64), 128 + (c % 64)>>
  ELSE <<240 + (c \div 262144), 128 + ((c \div 4096) % 64),
         128 + ((c \div 64) % 64), 128 + (c % 64)>>

Encodings == {"utf-8", "utf-8-sig", "latin-1"}

\* The bytes of a text of code points below 256 in an encoding.
Encode(text, encoding) ==
  IF encoding = "latin-1" THEN text
  ELSE (IF encoding = "utf-8-sig" THEN <<239, 187, 191>> ELSE << >>)
       \o Flatten([k \in DOMAIN text |-> Utf8Bytes(text[k])])

BlockSeqs == UNION { [1..n -> Blocks] : n \in 1..MaxBlocks }

TranscriptUploads ==
  { [bytes   |-> Encode(Render(d, bs, nl), e),
     form    |-> "transcript", dialect |-> d, blocks |-> bs]
    : d \in Dialects, bs \in BlockSeqs, nl \in BOOLEAN, e \in Encodings }

\* The texts of the worked example.
MediaOmitted == Txt(<<"<","M","e","d","i","a"," ","o","m","i","t","t","e","d",">">>)
Alice == Txt(<<"A","l","i","c","e">>)
Bob == Txt(<<"B","o","b">>)
HelloThere == Txt(<<"H","e","l","l","o"," ","t","h","e","r","e">>)
CheckLink ==
  Txt(<<"c","h","e","c","k"," ","h","t","t","p","s",":","/","/",
        "e","x","a","m","p","l","e",".","c","o","m">>)
ScenarioHeader1 == Txt(<<"1","/","2","/","2","3",","," ","9",":","0","5"," ","A","M"," ","-"," ">>)
ScenarioHeader2 == Txt(<<"1","/","2","/","2","3",","," ","9",":","0","6"," ","A","M"," ","-"," ">>)
ScenarioHeader3 == Txt(<<"1","/","2","/","2","3",","," ","9",":","0","7"," ","A","M"," ","-"," ">>)

\* A second family of transcripts, in the AM/PM dialect and in UTF-8: one
\* block that looks unusual among context blocks.  Each block carries what
\* it is written from: its timestamp, its user label, what stands between
\* the label and the body (": ", or ":" alone when the blank after the colon
\* of an empty body was trimmed with the line), its body, and its kind.
Block(ts, user, colon, body, kind) ==
  [ts |-> ts, user |-> user, colon |-> colon, body |-> body, kind |-> kind]

ColonSpace == Txt(<<":"," ">>)

ContextBlock == Block("ok", Txt(<<"B">>), ColonSpace, Txt(<<"h","i">>), "context")

\* The header of another message, as a body may quote it.
QuotedHeader == HeaderText("AM/PM", "noon") \o Txt(<<" ","-"," ","C",":"," ","y">>)

ProbeBlocks ==
  \* timestamps
  { Block(ts, Txt(<<"A">>), ColonSpace, Txt(<<"h","i">>), "timestamp")
      : ts \in {"leap", "eve", "noon", "bad", "late"} }
  \cup
  \* user labels with whitespace around them
  { Block("ok", user, ColonSpace, Txt(<<"h","i">>), "user")
      : user \in { Txt(<<" ","A">>), Txt(<<"A"," ">>), Txt(<<" ","A"," "," ">>),
                   Txt(<<"A"," ","B">>) } }
  \cup
  \* media placeholders, and ordinary text
  { Block("ok", Txt(<<"A">>), ColonSpace, body, "media")
      : body \in { MediaOmitted,
                   Txt(<<"I","M","A","G","E"," ","O","M","I","T","T","E","D">>),
                   Txt(<<"S","t","i","c","k","e","r"," ","o","m","i","t","t","e","d">>),
                   Txt(<<"x"," ","i","m","a","g","e"," ","o","m","i","t","t","e","d">>),
                   Txt(<<"v","i","d","e","o"," ","o","m","i","t","t","e","d",".">>),
                   Txt(<<"o","m","i","t","t","e","d">>) } }
  \cup
  \* empty bodies
  { Block("ok", Txt(<<"A">>), colon, << >>, "empty")
      : colon \in { ColonSpace, Txt(<<":">>) } }
  \cup
  \* links
  { Block("ok", Txt(<<"A">>), ColonSpace, body, "url")
      : body \in { Txt(<<"h","t","t","p",":","/","/","a">>),
                   Txt(<<"s","e","e"," ","h","t","t","p","s",":","/","/","a",".","b">>),
                   Txt(<<"h","t","t","p",":","/","/"," ","a">>),
                   Txt(<<"H","T","T","P",":","/","/","A">>) } }
  \cup
  \* emojis: thumbs up with a skin tone, a repeated face around a letter, a
  \* joined sequence, the copyright sign
  { Block("ok", Txt(<<"A">>), ColonSpace, body, "emoji")
      : body \in { <<128077, 127997>>, <<128512, 104, 128512>>,
                   <<128077, 8205, 128512>>, <<104, 169>> } }
  \cup
  \* a system notice: a header line without a "user:" part
  { Block("ok", Txt(<<"X"," ","j","o","i","n","e","d">>), << >>, << >>, "notice") }
  \cup
  \* a quoted header in the middle of a line, and at the start of a line
  { Block("ok", Txt(<<"A">>), ColonSpace, Txt(<<"x"," ">>) \o QuotedHeader, "quote in line"),
    Block("ok", Txt(<<"A">>), ColonSpace, Txt(<<"x","\n">>) \o QuotedHeader, "quote at line start") }

\* header, " - ", user label, ":" with or without its blank, body
ProbeText(blk) ==
  HeaderText("AM/PM", blk.ts) \o Txt(<<" ","-"," ">>) \o blk.user
    \o blk.colon \o blk.body

\* The blocks one per line.
ProbeLines(blocks) ==
  LET lines[k \in 1..Len(blocks)] ==
        IF k = 1 THEN ProbeText(blocks[1])
        ELSE lines[k - 1] \o <<10>> \o ProbeText(blocks[k])
  IN  lines[Len(blocks)]

\* n context blocks
Context(n) == [k \in 1..n |-> ContextBlock]

\* One probe block with context blocks before and after it, at most
\* MaxBlocks blocks in all.
ProbeSeqs ==
  { Context(before) \o <<blk>> \o Context(after)
    : blk \in ProbeBlocks,
      before \in 0..(MaxBlocks - 1), after \in 0..(MaxBlocks - 1) }

ProbeUploads ==
  { [bytes   |-> Encode(ProbeLines(bs) \o (IF nl THEN <<10>> ELSE << >>), "utf-8"),
     form    |-> "probe", dialect |-> "AM/PM", blocks |-> bs]
    : bs \in { x \in ProbeSeqs : Len(x) <= MaxBlocks }, nl \in BOOLEAN }

\* The transcript of the worked example: three messages of Alice and Bob,
\* no line feed after the last.
ScenarioBlocks ==
  << Block("9:05", Alice, ColonSpace, HelloThere, "scenario"),
     Block("9:06", Bob, ColonSpace, MediaOmitted, "scenario"),
     Block("9:07", Alice, ColonSpace, CheckLink \o <<32, 128512>>, "scenario") >>

ScenarioText ==
  ScenarioHeader1 \o Alice \o ColonSpace \o HelloThere \o <<10>>
  \o ScenarioHeader2 \o Bob \o ColonSpace \o MediaOmitted \o <<10>>
  \o ScenarioHeader3 \o Alice \o ColonSpace \o CheckLink \o <<32, 128512>>

ScenarioUploads ==
  { [bytes |-> Encode(ScenarioText, "utf-8"),
     form |-> "scenario", dialect |-> "AM/PM", blocks |-> ScenarioBlocks] }

\* "h", the UTF-8 bytes of U+00E9 (C3 A9), the Latin-1 byte of U+00E9 (E9),
\* and the bytes of the byte-order mark (EF BB BF).
RawBytes == {104, 195, 169, 233, 239, 187, 191}

RandomText ==
  Txt(<<"j","u","s","t"," ","s","o","m","e"," ","r","a","n","d","o","m"," ",
        "t","e","x","t">>)

RawUploads ==
  { [bytes |-> b, form |-> "raw", dialect |-> "none", blocks |-> << >>]
    : b \in {RandomText} \cup UNION { [1..n -> RawBytes] : n \in 0..MaxRawLen } }

Uploads ==
  TranscriptUploads \cup RawUploads \cup ProbeUploads \cup ScenarioUploads

(***************************************************************************)
(* The analyzer functions (src/analyzer.py) as the main content of the     *)
(* script calls them: what a call leaves of the table it is given.         *)
(***************************************************************************)

\* strftime('%Y-%m') of a timestamp, as text.
StrftimeYm(ts) ==
  << 48 + ((ts.year \div 1000) % 10), 48 + ((ts.year \div 100) % 10),
     48 + ((ts.year \div 10) % 10), 48 + (ts.year % 10), Ord("-"),
     48 + (ts.month \div 10), 48 + (ts.month % 10) >>

\* df['month_year'] = ... (analyzer.py line 339): the column is added to, or
\* replaced in, the table that was passed.
WithMonthYear(df) ==
  [k \in DOMAIN df |->
     [col \in DOMAIN df[k] \cup {"month_year"} |->
        IF col = "month_year" THEN StrftimeYm(df[k].timestamp)
        ELSE df[k][col]]]

\* The table passed to an analyzer function as the call leaves it.  Ten
\* functions only read it, or work on a copy or a sorted or filtered table
\* of their own; get_user_participation_over_time assigns a column to it.
Analyzed(fn, df) ==
  IF fn = "get_user_participation_over_time" THEN WithMonthYear(df) ELSE df

\* The calls of the main content on st.session_state.df, in the order of the
\* tabs (app.py lines 140-719; "All Users" is selected in the second tab).
AnalyzerCalls ==
  << "get_basic_stats", "get_user_stats", "get_chat_intensity",
     "get_word_cloud_data", "get_user_stats", "get_word_cloud_data",
     "get_activity_timeline", "get_time_analysis", "get_emoji_analysis",
     "get_response_patterns", "get_response_times",
     "get_user_participation_over_time", "get_activity_timeline",
     "get_sentiment_analysis" >>

\* The exception of the script's code that uses the result of a call, ""
\* when there is none: on a table of fewer than two rows get_response_times
\* returns a dict, and app.py line 602 reads its attribute 'empty'.
RaisedAfter(fn, df) ==
  IF fn = "get_response_times" /\ Len(df) < 2 THEN "AttributeError" ELSE ""

\* The ordinal of January 1, 1970, the epoch of the timestamps.
EpochOrdinal == 719163

\* The seconds of a timestamp since the epoch: what the comparison and the
\* subtraction of two timestamps work on (the inputs are dated before 2038,
\* so the count stays within 32 bits).
Seconds(ts) ==
  (((Ordinal(ts.year, ts.month, ts.day) - EpochOrdinal) * 24 + ts.hour) * 60
     + ts.minute) * 60 + ts.second

\* df['timestamp'].min() and .max()
MinTimestamp(df) ==
  df[CHOOSE k \in DOMAIN df :
       \A j \in DOMAIN df : Seconds(df[k].timestamp) <= Seconds(df[j].timestamp)].timestamp

MaxTimestamp(df) ==
  df[CHOOSE k \in DOMAIN df :
       \A j \in DOMAIN df : Seconds(df[k].timestamp) >= Seconds(df[j].timestamp)].timestamp

\* The value of a call that was not made.
NotCalled == [called |-> FALSE]

\* get_basic_stats, lines 11-15 and 32: the count of the messages and the
\* duration from the date of the first message to the date of the last.
get_basic_stats(df) ==
  IF df = << >> THEN [called |-> TRUE, empty |-> TRUE]
  ELSE [called |-> TRUE, empty |-> FALSE,
        total_messages |-> Len(df),
        duration_days  |->
          Ordinal(MaxTimestamp(df).year, MaxTimestamp(df).month, MaxTimestamp(df).day)
            - Ordinal(MinTimestamp(df).year, MinTimestamp(df).month, MinTimestamp(df).day)
            + 1]

\* get_user_stats, lines 48-49 and 78-83: the message count of each user and
\* the duration the counts are divided by, the whole days of the Timedelta
\* between the first and the last timestamp, plus one.
get_user_stats(df) ==
  IF df = << >> THEN [called |-> TRUE, empty |-> TRUE]
  ELSE [called |-> TRUE, empty |-> FALSE,
        message_count |->
          [user \in { df[k].user : k \in DOMAIN df } |->
             Cardinality({ k \in DOMAIN df : df[k].user = user })],
        chat_duration |->
          ((Seconds(MaxTimestamp(df)) - Seconds(MinTimestamp(df))) \div 86400) + 1]

\* A dict in insertion order, as a sequence of <<key, value>>.
Keys(dict) == [k \in DOMAIN dict |-> dict[k][1]]

HasKey(dict, key) == \E k \in DOMAIN dict : dict[k][1] = key

ValueOf(dict, key) == dict[CHOOSE k \in DOMAIN dict : dict[k][1] = key][2]

\* df.groupby(col).size() as a dict: the values of the column that occur,
\* in the sorted order of the group keys, each with the count of its rows.
GroupSizes(df, col, sorted) ==
  LET occurs(key) == \E k \in DOMAIN df : df[k][col] = key
      keys == SelectSeq(sorted, occurs)
  IN  [i \in DOMAIN keys |->
         << keys[i], Cardinality({ k \in DOMAIN df : df[k][col] = keys[i] }) >>]

\* for key in order: if key not in dict: dict[key] = 0
FillMissing(dict, order) ==
  LET missing(key) == ~HasKey(dict, key)
      absent == SelectSeq(order, missing)
  IN  dict \o [i \in DOMAIN absent |-> << absent[i], 0 >>]

\* The dict left in its insertion order.
InsertionOrder(dict, order) == dict

\* {key: dict[key] for key in order if key in dict}
InOrder(dict, order) ==
  LET present(key) == HasKey(dict, key)
      keys == SelectSeq(order, present)
  IN  [i \in DOMAIN keys |-> << keys[i], ValueOf(dict, keys[i]) >>]

\* range(24)
Hours == [i \in 1..24 |-> i - 1]

\* The names in the order in which groupby sorts them.
DayNamesSorted ==
  << "Friday", "Monday", "Saturday", "Sunday", "Thursday", "Tuesday",
     "Wednesday" >>

MonthNamesSorted ==
  << "April", "August", "December", "February", "January", "July", "June",
     "March", "May", "November", "October", "September" >>

\* get_time_analysis, lines 92-131: the three dicts.  All keys of the hourly
\* dict are in range(24) once it is filled, so sorted() puts it in the order
\* of range(24).
get_time_analysis(df) ==
  IF df = << >> THEN [called |-> TRUE, hourly |-> << >>, daily |-> << >>, monthly |-> << >>]
  ELSE [called  |-> TRUE,
        hourly  |-> InOrder(FillMissing(GroupSizes(df, "hour", Hours), Hours), Hours),
        daily   |-> InOrder(FillMissing(GroupSizes(df, "day", DayNamesSorted),
                                        DayNames), DayNames),
        monthly |-> InOrder(FillMissing(GroupSizes(df, "month", MonthNamesSorted),
                                        MonthNames), MonthNames)]

\* df.sort_values('timestamp'): the rows by ascending timestamp, rows of the
\* same timestamp in the order they had (the sort of tables this small
\* keeps it).
SortByTimestamp(df) ==
  LET rank(k) ==
        Cardinality({ j \in DOMAIN df :
                        \/ Seconds(df[j].timestamp) < Seconds(df[k].timestamp)
                        \/ /\ Seconds(df[j].timestamp) = Seconds(df[k].timestamp)
                           /\ j <= k })
  IN  [p \in DOMAIN df |-> df[CHOOSE k \in DOMAIN df : rank(k) = p]]

\* round(2) of num/den in hundredths, halves to the even neighbour.
RoundedHundredths(num, den) ==
  LET q == (num * 100) \div den
      r == (num * 100) % den
  IN  IF 2 * r > den \/ (2 * r = den /\ q % 2 = 1) THEN q + 1 ELSE q

\* Lines 288-290: the row is a response that counts, to another user, at
\* most 1440 minutes and more than no time after the row before it.
Responds(sorted, k) ==
  /\ k > 1
  /\ sorted[k].user # sorted[k - 1].user
  /\ Seconds(sorted[k].timestamp) - Seconds(sorted[k - 1].timestamp) <= 1440 * 60
  /\ Seconds(sorted[k].timestamp) - Seconds(sorted[k - 1].timestamp) > 0

\* get_response_times, lines 274-297: {} for fewer than two rows; else a
\* table with one row for each pair (From, To) of the responses that count,
\* with the mean of their gaps in hundredths of a minute.  The rows are
\* held as a set: their order is not modelled.
get_response_times(df) ==
  IF Len(df) < 2 THEN [called |-> TRUE, kind |-> "dict", rows |-> {}]
  ELSE
    LET sorted == SortByTimestamp(df)
        gap(k) == Seconds(sorted[k].timestamp) - Seconds(sorted[k - 1].timestamp)
        of(prev, user) ==
          { k \in DOMAIN sorted :
              /\ Responds(sorted, k)
              /\ sorted[k - 1].user = prev /\ sorted[k].user = user }
        sum(K) ==
          LET acc[k \in 0..Len(sorted)] ==
                IF k = 0 THEN 0
                ELSE acc[k - 1] + (IF k \in K THEN gap(k) ELSE 0)
          IN  acc[Len(sorted)]
    IN  [called |-> TRUE, kind |-> "DataFrame",
         rows |->
           { [From |-> sorted[k - 1].user, To |-> sorted[k].user,
              avg  |-> RoundedHundredths(
                         sum(of(sorted[k - 1].user, sorted[k].user)),
                         60 * Cardinality(of(sorted[k - 1].user, sorted[k].user)))]
             : k \in { j \in DOMAIN sorted : Responds(sorted, j) } }]

\* What the calls of the main content returned, for the four functions
\* above.
NoAnalysis ==
  [get_basic_stats |-> NotCalled, get_user_stats |-> NotCalled,
   get_time_analysis |-> NotCalled, get_response_times |-> NotCalled]

Returned(fn, df, results) ==
  CASE fn = "get_basic_stats"    -> [results EXCEPT !.get_basic_stats = get_basic_stats(df)]
    [] fn = "get_user_stats"     -> [results EXCEPT !.get_user_stats = get_user_stats(df)]
    [] fn = "get_time_analysis"  -> [results EXCEPT !.get_time_analysis = get_time_analysis(df)]
    [] fn = "get_response_times" -> [results EXCEPT !.get_response_times = get_response_times(df)]
    [] OTHER -> results

\* Lines 117-851: the calls in order on the session's table, up to the first
\* exception.
MainContent(df) ==
  LET run[k \in 0..Len(AnalyzerCalls)] ==
        IF k = 0 THEN [df |-> df, raised |-> "", results |-> NoAnalysis]
        ELSE The({ IF before.raised # "" THEN before
                   ELSE [df      |-> Analyzed(AnalyzerCalls[k], before.df),
                         raised  |-> RaisedAfter(AnalyzerCalls[k], before.df),
                         results |-> Returned(AnalyzerCalls[k], before.df,
                                              before.results)]
                   : before \in {run[k - 1]} })
  IN  run[Len(AnalyzerCalls)]

(***************************************************************************)
(* The Streamlit script (src/app.py), lines 74-118                         *)
(***************************************************************************)

VARIABLES
  uploaded_file,  \* the file in the sidebar's uploader, NoFile when empty
  transcript,     \* how that file was written: its form, dialect and blocks
  rerun,          \* a script run was asked for and has not run yet
  call,           \* the last call of preprocess_chat, as Exit records it
  prev_call,      \* the call of preprocess_chat before the last
  called_at,      \* the file's read position when the last call began
  chat_text,      \* line 94's chat_text: [set, text]
  session_df,     \* st.session_state.df: [none, rows]
  shown,          \* what the upload handling showed in the last run
  raised,         \* the exception that ended the upload handling, "" when none
  main_raised,    \* the exception that ended the main content, "" when none
  analysis,       \* what the analyzer calls of the last run returned
  qa_history,     \* st.session_state.qa_history: [set, entries]
  user_query,     \* the text in the input "Enter your question:"
  history_shown   \* the question/answer history as the last run displayed it

tab_vars == <<analysis, qa_history, user_query, history_shown>>

vars == <<uploaded_file, transcript, rerun, call, prev_call, called_at,
          chat_text, session_df, shown, raised, main_raised, analysis,
          qa_history, user_query, history_shown>>

NoTranscript == [form |-> "none", dialect |-> "none", blocks |-> << >>]
NoCall == Exit("not called", << >>, "", FALSE, FALSE, << >>, << >>)
Unset == [set |-> FALSE, text |-> << >>]
NoneDf == [none |-> TRUE, rows |-> << >>]
NoHistory == [set |-> FALSE, entries |-> << >>]
NoQuestion == ""
NotShown == [shown |-> FALSE, entries |-> << >>]

\* A new session: nothing uploaded, line 88 has set session_state.df = None.
Init ==
  /\ uploaded_file = NoFile
  /\ transcript = NoTranscript
  /\ rerun = FALSE
  /\ call = NoCall
  /\ prev_call = NoCall
  /\ called_at = 0
  /\ chat_text = Unset
  /\ session_df = NoneDf
  /\ shown = "nothing"
  /\ raised = ""
  /\ main_raised = ""
  /\ analysis = NoAnalysis
  /\ qa_history = NoHistory
  /\ user_query = NoQuestion
  /\ history_shown = NotShown

\* The user puts a file into the uploader of a new session; Streamlit then
\* runs the script again.
Upload(u) ==
  /\ ~uploaded_file.some
  /\ ~rerun
  /\ uploaded_file' = File(u.bytes)
  /\ transcript' = [form |-> u.form, dialect |-> u.dialect, blocks |-> u.blocks]
  /\ rerun' = TRUE
  /\ UNCHANGED <<call, prev_call, called_at, chat_text, session_df, shown,
                 raised, main_raised>>
  /\ UNCHANGED tab_vars

\* The user touches a widget while the file stays in the uploader: Streamlit
\* runs the script again.  Whether the run gets the file object of the run
\* before (its read position kept) or a new one on the same bytes depends on
\* the Streamlit release.
Rerun ==
  /\ uploaded_file.some
  /\ ~rerun
  /\ rerun' = TRUE
  /\ uploaded_file' \in {uploaded_file, File(uploaded_file.bytes)}
  /\ UNCHANGED <<transcript, call, prev_call, called_at, chat_text,
                 session_df, shown, raised, main_raised>>
  /\ UNCHANGED tab_vars

\* Line 94: uploaded_file.read().decode("utf-8")
ReadChatText(file) == DecodeUtf8(Read(file).data)

\* The answers of ask_gemini_question to a question (aiChat.py line 35):
\* the text of a response, or the text that stands for none.
Answers == {"an answer", "No response available."}

\* A run that does not reach the text input: the history is not displayed
\* and stays as it is; Streamlit may drop the state of a widget that a run
\* did not render.
NotRendered ==
  /\ UNCHANGED qa_history
  /\ history_shown' = NotShown
  /\ user_query' \in {user_query, NoQuestion}

\* A question counts only when it is not the one answered last.
AskedAnew(query) ==
  /\ query # NoQuestion
  /\ \/ qa_history.entries = << >>
     \/ qa_history.entries[Len(qa_history.entries)].question # query

\* Line 846: if user_query
Asked(query) == query # NoQuestion

\* Lines 804-851, the last tab: the history is created when missing; with a
\* file in the uploader it is displayed, then the text input is read and a
\* question in it is answered and appended.
AiTab(has_file) ==
  IF ~has_file
    THEN /\ qa_history' = [set |-> TRUE, entries |-> qa_history.entries]
         /\ history_shown' = NotShown
         /\ user_query' \in {user_query, NoQuestion}
    ELSE /\ history_shown' = [shown |-> TRUE, entries |-> qa_history.entries]
         /\ user_query' = user_query
         /\ IF Asked(user_query)
              THEN \E answer \in Answers :
                     qa_history' =
                       [set |-> TRUE,
                        entries |-> Append(qa_history.entries,
                                           [question |-> user_query,
                                            answer |-> answer])]
              ELSE qa_history' = [set |-> TRUE, entries |-> qa_history.entries]

\* Line 96 without the test of line 95 for an empty table.
StoredAlsoWhenEmpty(c) ==
  IF c.kind = "DataFrame" THEN [none |-> FALSE, rows |-> c.df] ELSE session_df

\* Lines 95-96: st.session_state.df after the upload handling.
Stored(c) ==
  IF c.kind = "DataFrame" /\ c.df # << >>
    THEN [none |-> FALSE, rows |-> c.df]
    ELSE session_df

\* Lines 117-851: the main content when the session holds a table that is
\* not empty, the landing page when not.
Main(df, has_file) ==
  IF ~df.none /\ df.rows # << >>
    THEN \E main \in {MainContent(df.rows)} :
           /\ session_df' = [none |-> FALSE, rows |-> main.df]
           /\ main_raised' = main.raised
           /\ analysis' = main.results
           /\ IF main.raised = "" THEN AiTab(has_file) ELSE NotRendered
    ELSE /\ session_df' = df
         /\ main_raised' = ""
         /\ analysis' = NoAnalysis
         /\ NotRendered

\* Lines 95-114, then lines 117-851.
ShowResult(c) ==
  /\ shown' = IF c.kind = "DataFrame" /\ c.df # << >>
                THEN "success" ELSE "failed to process"
  /\ \E df \in {Stored(c)} : Main(df, TRUE)

\* One script run with a file in the uploader (lines 91-851).  An exception
\* ends the run where it is raised: nothing after it is assigned.
ScriptRun ==
  /\ rerun
  /\ uploaded_file.some
  /\ rerun' = FALSE
  /\ \E c \in {preprocess_chat(uploaded_file)},
        file \in {FileAfter(uploaded_file)} :
       \E text \in {ReadChatText(file)} :
         /\ call' = c
         /\ prev_call' = call
         /\ called_at' = uploaded_file.pos
         /\ IF c.kind = "raise"
              THEN /\ raised' = c.error
                   /\ shown' = "exception"
                   /\ uploaded_file' = file
                   /\ main_raised' = ""
                   /\ analysis' = NoAnalysis
                   /\ NotRendered
                   /\ UNCHANGED <<chat_text, session_df>>
            ELSE IF ~text.ok
              THEN /\ raised' = "UnicodeDecodeError"
                   /\ shown' = "exception"
                   /\ uploaded_file' = Read(file).file
                   /\ main_raised' = ""
                   /\ analysis' = NoAnalysis
                   /\ NotRendered
                   /\ UNCHANGED <<chat_text, session_df>>
            ELSE /\ raised' = ""
                 /\ chat_text' = [set |-> TRUE, text |-> text.text]
                 /\ uploaded_file' = Read(file).file
                 /\ ShowResult(c)
  /\ UNCHANGED transcript

Next ==
  \/ \E u \in Uploads : Upload(u)
  \/ ScriptRun

Spec == Init /\ [][Next]_vars

\* A session in which the user, after the upload, makes the script run
\* again: the transcripts with one unusual block, the worked example and the
\* raw buffers.
SessionUploads == ProbeUploads \cup ScenarioUploads \cup RawUploads

NextSession ==
  \/ \E u \in SessionUploads : Upload(u)
  \/ ScriptRun
  \/ Rerun

SpecSession == Init /\ [][NextSession]_vars

(***************************************************************************)
(* Sessions with several uploads, and with questions in the last tab       *)
(***************************************************************************)

\* A transcript of the given blocks in the AM/PM dialect, in UTF-8.
SessionUpload(blocks) ==
  [bytes |-> Encode(ProbeLines(blocks), "utf-8"),
   form |-> "session", dialect |-> "AM/PM", blocks |-> blocks]

\* A message whose date no calendar holds.
BadBlock == Block("bad", Txt(<<"A">>), ColonSpace, Txt(<<"h","i">>), "timestamp")

\* The uploads of such a session: the worked example, a transcript of one
\* message and one of two, a transcript whose only message has a date that
\* does not exist (an empty table), and a text that is no transcript.
SeveralUploads ==
  ScenarioUploads
    \cup { SessionUpload(<<ContextBlock>>),
           SessionUpload(<<ContextBlock, BadBlock, ContextBlock>>),
           SessionUpload(<<BadBlock>>) }
    \cup { [bytes |-> RandomText, form |-> "raw", dialect |-> "none",
            blocks |-> << >>] }

\* The user puts another file in the place of the one in the uploader.
Replace(u) ==
  /\ uploaded_file.some
  /\ ~rerun
  /\ uploaded_file' = File(u.bytes)
  /\ transcript' = [form |-> u.form, dialect |-> u.dialect, blocks |-> u.blocks]
  /\ rerun' = TRUE
  /\ UNCHANGED <<call, prev_call, called_at, chat_text, session_df, shown,
                 raised, main_raised>>
  /\ UNCHANGED tab_vars

\* The user takes the file out of the uploader.
Remove ==
  /\ uploaded_file.some
  /\ ~rerun
  /\ uploaded_file' = NoFile
  /\ transcript' = NoTranscript
  /\ rerun' = TRUE
  /\ UNCHANGED <<call, prev_call, called_at, chat_text, session_df, shown,
                 raised, main_raised>>
  /\ UNCHANGED tab_vars

\* One script run with no file in the uploader: line 91 skips the upload
\* handling, lines 117-851 follow.
ScriptRunNoFile ==
  /\ rerun
  /\ ~uploaded_file.some
  /\ rerun' = FALSE
  /\ shown' = "nothing"
  /\ raised' = ""
  /\ Main(session_df, FALSE)
  /\ UNCHANGED <<uploaded_file, transcript, call, prev_call, called_at,
                 chat_text>>

NextUploads ==
  \/ \E u \in SeveralUploads : Upload(u)
  \/ \E u \in SeveralUploads : Replace(u)
  \/ Remove
  \/ ScriptRun
  \/ ScriptRunNoFile

SpecUploads == Init /\ [][NextUploads]_vars

\* The longest history the questions of a session are followed to.
MaxHistory == 3

Questions == {"who wrote most?", "when?"}

\* The user enters a question, or clears the input, and presses Enter: the
\* input is on the screen when the last run displayed the history.
Ask(q) ==
  /\ history_shown.shown
  /\ ~rerun
  /\ q # user_query
  /\ Len(qa_history.entries) < MaxHistory
  /\ user_query' = q
  /\ rerun' = TRUE
  /\ uploaded_file' \in {uploaded_file, File(uploaded_file.bytes)}
  /\ UNCHANGED <<transcript, call, prev_call, called_at, chat_text,
                 session_df, shown, raised, main_raised, analysis,
                 qa_history, history_shown>>

\* Another run by a widget of another tab, while the history has room.
RerunWithQuestion ==
  /\ Len(qa_history.entries) < MaxHistory
  /\ Rerun

\* The uploads of a session with questions: the worked example, and a
\* transcript of one message, on which the script stops before the last tab.
ChatUploads == ScenarioUploads \cup { SessionUpload(<<ContextBlock>>) }

NextChat ==
  \/ \E u \in ChatUploads : Upload(u)
  \/ \E u \in ChatUploads : Len(qa_history.entries) < MaxHistory /\ Replace(u)
  \/ ScriptRun
  \/ \E q \in Questions \cup {NoQuestion} : Ask(q)
  \/ RerunWithQuestion

SpecChat == Init /\ [][NextChat]_vars

(***************************************************************************)
(* Properties of preprocess_chat and of the upload handling                *)
(***************************************************************************)

\* The script has run with the uploaded file: call holds preprocess_chat's
\* exit.
Ran == call.kind # "not called"

IsTranscript == transcript.form = "transcript"

\* The block's date and time exist.
WellFormed(blk) == blk.ts # "bad"

\* The blocks of the uploaded transcript whose date and time exist.
GoodBlocks == SelectSeq(transcript.blocks, WellFormed)

\* The table holds one record per block of bs, in order: the block's user
\* label, its whole body, and a timestamp that is no NaT.
RecordsOf(df, bs) ==
  /\ Len(df) = Len(bs)
  /\ \A k \in DOMAIN bs :
       /\ df[k].user = bs[k].user
       /\ df[k].message = bs[k].body
       /\ ~df[k].timestamp.nat

\* What the caller of preprocess_chat sees of a call.
Outcome(c) == [kind |-> c.kind, df |-> c.df, error |-> c.error]

\* C1 (as claimed): a transcript of N well-formed blocks, none with a
\* malformed timestamp, yields exactly N records, one per block, in
\* transcript order.
C1_RoundTripCount ==
  (Ran /\ IsTranscript /\ \A k \in DOMAIN transcript.blocks :
                            WellFormed(transcript.blocks[k]))
    => (call.kind = "DataFrame" /\ RecordsOf(call.df, transcript.blocks))

\* C2 (as claimed): a transcript in the 24-hour dialect finds nothing with
\* the AM/PM pattern, is then matched with the alternate pattern, and its
\* records are returned (one per block with a date that exists) instead of
\* the call failing.
C2_DialectFallback ==
  (Ran /\ IsTranscript /\ transcript.dialect = "24h")
    => (call.kind = "DataFrame" /\ RecordsOf(call.df, GoodBlocks))

\* C3 (as claimed): on a decoded input in which neither dialect recognizes
\* a message boundary, preprocess_chat returns an empty result value and no
\* exception escapes.
C3_NoMatchReturnsEmpty ==
  (Ran /\ transcript.form = "raw")
    => (call.kind # "raise" /\ call.df = << >>)

\* C4: in a transcript the AM/PM pattern reads, a body that holds a line
\* feed followed by text that starts no timestamp is stored whole (the line
\* feed and the text after it) in the message of one record, and the table
\* has one record per block with a date that exists: the embedded line feed
\* adds none.
C4_MultiLinePreserved ==
  (Ran /\ IsTranscript /\ transcript.dialect = "AM/PM")
    => /\ call.kind = "DataFrame"
       /\ Len(call.df) = Len(GoodBlocks)
       /\ \A k \in DOMAIN GoodBlocks :
            call.df[k].message = GoodBlocks[k].body

\* A two-block transcript whose first block has the two-line body, parsed
\* into two records of which the first holds both lines.
C4_Witness ==
  /\ Ran /\ IsTranscript /\ transcript.dialect = "AM/PM"
  /\ Len(transcript.blocks) = 2
  /\ transcript.blocks[1].body = Txt(<<"a", "\n", "b">>)
  /\ Len(call.df) = 2
  /\ call.df[1].message = Txt(<<"a", "\n", "b">>)

\* C5: when every block of the transcript matched the header pattern and
\* some carry a date that does not exist (day 32), the call does not fail,
\* the table has no record for those blocks and exactly one record, in
\* order, for each other block.
C5_DropMalformedTimestamp ==
  (/\ Ran /\ IsTranscript
   /\ Len(call.matches) = Len(transcript.blocks)
   /\ \E k \in DOMAIN transcript.blocks : ~WellFormed(transcript.blocks[k]))
    => (call.kind = "DataFrame" /\ RecordsOf(call.df, GoodBlocks))

\* A malformed block followed by a well-formed one: both matched, one
\* record.
C5_Witness ==
  /\ Ran /\ IsTranscript
  /\ Len(call.matches) = 2
  /\ ~WellFormed(transcript.blocks[1]) /\ WellFormed(transcript.blocks[2])
  /\ Len(call.df) = 1
  /\ call.df[1].message = transcript.blocks[2].body

\* C6 (as claimed): whenever a message boundary is recognized the call
\* returns a non-empty record sequence.
C6_NonEmptyWhenRecognized ==
  (Ran /\ call.matches # << >>)
    => (call.kind = "DataFrame" /\ call.df # << >>)

\* C6 (amended): whenever a message boundary is recognized the call returns
\* a table, which is non-empty exactly when some matched block has a
\* timestamp that normalizes; when none has, the table is empty.
C6_NonEmptyIffSomeValid ==
  (Ran /\ call.matches # << >>)
    => /\ call.kind = "DataFrame"
       /\ call.df # << >>
            <=> \E k \in DOMAIN transcript.blocks :
                  WellFormed(transcript.blocks[k])

\* Blocks were matched, all with a date that does not exist: an empty table.
C6_Witness ==
  /\ Ran /\ call.matches # << >>
  /\ call.kind = "DataFrame" /\ call.df = << >>

\* The two outcomes C7 compares do not occur: every call decodes its input
\* (Latin-1 reads every buffer, line 31 is never reached), and no call
\* returns None (an input without a match raises before line 43).
EveryCallDecodes == Ran => call.decoded
NoCallReturnsNone == Ran => call.kind # "None"

\* preprocess_chat on the empty file.
EmptyInputCall == preprocess_chat(File(<< >>))

Attempts(b) == << DecodeUtf8(b), DecodeUtf8Sig(b), DecodeLatin1(b) >>

\* C9: the content handed to the regular expressions is the first of the
\* UTF-8, UTF-8-with-BOM and Latin-1 decodings that succeeds, and the call
\* returns None without parsing exactly when all three fail.
C9_FirstSuccessfulDecoding ==
  Ran =>
    \A S \in { { i \in 1..3 : Attempts(uploaded_file.bytes)[i].ok } } :
      /\ S = {} <=> (call.kind = "None" /\ ~call.decoded /\ ~call.scanned)
      /\ S # {} => /\ call.decoded /\ call.scanned
                   /\ call.content = Attempts(uploaded_file.bytes)[Min(S)].text

\* A buffer that is no UTF-8, with or without byte-order mark, parsed as its
\* Latin-1 text.
C9_Witness ==
  /\ Ran /\ uploaded_file.bytes # << >>
  /\ ~DecodeUtf8(uploaded_file.bytes).ok
  /\ ~DecodeUtf8Sig(uploaded_file.bytes).ok
  /\ call.scanned /\ call.content = uploaded_file.bytes

\* C10 (as claimed): whenever preprocess_chat decoded the file and
\* returned, the script also holds the decoded text of the file for the AI
\* tab, and no error was raised.
C10_ChatTextDefined ==
  (Ran /\ call.decoded /\ call.kind # "raise")
    => (chat_text.set /\ raised = "")

\* The names of the columns of a table that is not empty.
Columns(df) == DOMAIN df[1]

\* C11 (as claimed): after the analyzer functions were called on the table
\* held in the session state, the table has the columns and the values that
\* preprocess_chat returned.
C11_AnalysesLeaveTableUnchanged ==
  (Ran /\ shown = "success")
    => /\ Len(session_df.rows) = Len(call.df)
       /\ Columns(session_df.rows) = Columns(call.df)
       /\ \A k \in DOMAIN call.df :
            \A col \in Columns(call.df) :
              session_df.rows[k][col] = call.df[k][col]

\* The script has run twice with the same file in the uploader: prev_call
\* and call are two calls of preprocess_chat on the same uploaded content.
CalledTwice == Ran /\ prev_call.kind # "not called"

\* C12: two calls of preprocess_chat on the same uploaded content end alike,
\* with tables equal by value (as many records, the same field values in
\* the same order), and the second call reads the content the first read,
\* wherever the script's own read() has left the file's position meanwhile.
C12_Idempotent ==
  CalledTwice
    => /\ Outcome(call) = Outcome(prev_call)
       /\ call.content = prev_call.content
       /\ call.matches = prev_call.matches

\* The second call began on the file object of the first run, its read
\* position at the end of the buffer, and returned the records again.
C12_Witness ==
  /\ CalledTwice
  /\ called_at = Len(uploaded_file.bytes) /\ called_at > 0
  /\ call.kind = "DataFrame" /\ Len(call.df) >= 2
  /\ call.df = prev_call.df

\* The transcript of the worked example has been parsed.
ScenarioParsed == Ran /\ transcript.form = "scenario"

\* C13 (as claimed): the second record of the worked example has
\* has_media = true and message_length = 14.
C13_ScenarioRecord2 ==
  ScenarioParsed
    => /\ call.kind = "DataFrame" /\ Len(call.df) >= 2
       /\ call.df[2].has_media
       /\ call.df[2].message_length = 14

\* C13 (amended): the second record of the worked example has
\* has_media = true and message_length = 15, the number of characters of
\* "<Media omitted>".
C13_ScenarioRecord2Length15 ==
  ScenarioParsed
    => /\ call.kind = "DataFrame" /\ Len(call.df) >= 2
       /\ call.df[2].has_media
       /\ call.df[2].message_length = 15

\* Bob's record of the worked example holds the placeholder as its message.
C13_Witness ==
  /\ ScenarioParsed /\ call.kind = "DataFrame"
  /\ call.df[2].user = Bob
  /\ call.df[2].message = MediaOmitted

\* C14: the worked example yields exactly three records, and the third has
\* has_url = true, the grinning face as its only emoji, emoji_count = 1 and
\* user = "Alice".
C14_ScenarioCountAndRecord3 ==
  ScenarioParsed
    => /\ call.kind = "DataFrame" /\ Len(call.df) = 3
       /\ call.df[3].has_url
       /\ call.df[3].emojis = <<128512>>
       /\ call.df[3].emoji_count = 1
       /\ call.df[3].user = Alice

\* The third record holds the line with the link and the emoji.
C14_Witness ==
  /\ ScenarioParsed /\ call.kind = "DataFrame" /\ Len(call.df) = 3
  /\ call.df[1].message = HelloThere
  /\ call.df[3].message = CheckLink \o <<32, 128512>>

\* The records of the last call, none when it returned no table.
Records == IF call.kind = "DataFrame" THEN call.df ELSE << >>

\* The weekday of a date by Zeller's congruence.
ZellerDay(ts) ==
  LET m == IF ts.month < 3 THEN ts.month + 12 ELSE ts.month
      y == IF ts.month < 3 THEN ts.year - 1 ELSE ts.year
      h == (ts.day + ((13 * (m + 1)) \div 5) + (y % 100) + ((y % 100) \div 4)
             + ((y \div 100) \div 4) + 5 * (y \div 100)) % 7
  IN  << "Saturday", "Sunday", "Monday", "Tuesday", "Wednesday", "Thursday",
         "Friday" >>[h + 1]

\* C15: every record returned has a timestamp that is no NaT, and its date,
\* day, hour, month and year are the calendar date, the weekday name, the
\* hour (0-23), the month name and the year of that timestamp.
C15_GroupingTotality ==
  \A k \in DOMAIN Records :
    \A r \in {Records[k]} :
      /\ ~r.timestamp.nat
      /\ r.date = [year |-> r.timestamp.year, month |-> r.timestamp.month,
                   day |-> r.timestamp.day]
      /\ r.date.month \in 1..12 /\ r.date.day \in 1..31
      /\ r.day = ZellerDay(r.timestamp)
      /\ r.hour = r.timestamp.hour /\ r.hour \in 0..23
      /\ r.month \in { MonthNames[m] : m \in {r.timestamp.month} }
      /\ r.year = r.timestamp.year

\* The first minute of February 29, 2024 in a record: a Thursday, hour 0.
C15_Witness ==
  /\ Ran
  /\ \E k \in DOMAIN Records :
       /\ Records[k].date = [year |-> 2024, month |-> 2, day |-> 29]
       /\ Records[k].day = "Thursday" /\ Records[k].hour = 0
       /\ Records[k].month = "February" /\ Records[k].year = 2024

\* A transcript with one unusual block has been parsed.
ProbeParsed == Ran /\ transcript.form = "probe"

\* The place of the unusual block among the blocks of such a transcript.
ProbeAt ==
  CHOOSE k \in DOMAIN transcript.blocks : transcript.blocks[k].kind # "context"

ProbeKind == transcript.blocks[ProbeAt].kind

\* The records of the last call are those of the sequence of [user, body].
RecordsAre(expected) ==
  /\ call.kind = "DataFrame"
  /\ Len(call.df) = Len(expected)
  /\ \A k \in DOMAIN expected :
       /\ call.df[k].user = expected[k].user
       /\ call.df[k].message = expected[k].body

\* The blocks of the transcript as [user, body].
BlocksAsWritten ==
  [k \in DOMAIN transcript.blocks |->
     [user |-> transcript.blocks[k].user, body |-> transcript.blocks[k].body]]

\* The blocks with the block at ProbeAt replaced by two: the text of its body
\* before the quoted header, and the quoted message of "C".
BlocksWithQuoteSplit ==
  SubSeq(BlocksAsWritten, 1, ProbeAt - 1)
    \o << [user |-> Txt(<<"A">>), body |-> Txt(<<"x">>)],
          [user |-> Txt(<<"C">>), body |-> Txt(<<"y">>)] >>
    \o SubSeq(BlocksAsWritten, ProbeAt + 1, Len(BlocksAsWritten))

\* C16: a header quoted in a body ends the body and starts a record of its
\* own when it stands at the start of a line, directly after a line feed;
\* quoted in the middle of a line it stays in the body and adds no record.
C16_BoundaryOnlyAtLineStart ==
  /\ (ProbeParsed /\ ProbeKind = "quote at line start")
       => RecordsAre(BlocksWithQuoteSplit)
  /\ (ProbeParsed /\ ProbeKind = "quote in line")
       => RecordsAre(BlocksAsWritten)

\* Both quotes parsed: in the middle of a line the record keeps the header
\* in its message; the witness is the one at a line start, between two
\* other messages, split off as a record of "C".
C16_Witness ==
  /\ ProbeParsed /\ ProbeKind = "quote at line start"
  /\ Len(transcript.blocks) = 2 /\ ProbeAt = 1
  /\ Len(call.df) = 3
  /\ call.df[2].user = Txt(<<"C">>) /\ call.df[2].hour = 12

\* The whole body is a phrase of the media vocabulary, letter case ignored.
IsMediaPlaceholder(message) ==
  \E phrase \in MediaVocabulary :
    /\ Len(message) = Len(phrase)
    /\ \A j \in 1..Len(phrase) : Fold(message[j]) = Fold(phrase[j])

\* C17 (as claimed): a block whose body is empty and a block whose body
\* is only a media placeholder each yield one record, no exception escapes,
\* and every other block of the transcript yields its own record.
C17_UnusualBlocksAreRecords ==
  (/\ ProbeParsed
   /\ \/ ProbeKind = "empty"
      \/ ProbeKind = "media"
           /\ IsMediaPlaceholder(transcript.blocks[ProbeAt].body))
    => RecordsAre(BlocksAsWritten)

\* The message with its letters folded.
Folded(message) == [i \in DOMAIN message |-> Fold(message[i])]

\* A phrase of the media vocabulary is a part of the message, letter case
\* ignored.
HoldsMediaPhrase(message) ==
  \E phrase \in MediaVocabulary :
    \E a \in 0..(Len(message) - Len(phrase)) :
      SubSeq(Folded(message), a + 1, a + Len(phrase)) = Folded(phrase)

\* C18 (as claimed): has_media is true exactly when the whole body is a
\* phrase of the media vocabulary, letter case ignored.
C18_MediaIffPlaceholder ==
  \A k \in DOMAIN Records :
    Records[k].has_media <=> IsMediaPlaceholder(Records[k].message)

\* C18 (amended): has_media is true exactly when the body contains a phrase
\* of the media vocabulary, letter case ignored.
C18_MediaIffContainsPhrase ==
  \A k \in DOMAIN Records :
    Records[k].has_media <=> HoldsMediaPhrase(Records[k].message)

\* A body with ordinary text beside a phrase of the vocabulary is flagged
\* as media.
C18_Witness ==
  /\ ProbeParsed /\ ProbeKind = "media"
  /\ ~IsMediaPlaceholder(Records[ProbeAt].message)
  /\ Records[ProbeAt].has_media

\* The indexes of the characters of a message that are keys of the emoji
\* table.
EmojiIndexes(message) == { i \in DOMAIN message : message[i] \in EMOJI_DATA }

\* C19: emojis holds, in text order and with repeats, exactly the characters
\* of the body that are keys of the emoji table, one entry per code point,
\* and emoji_count is its length.
C19_EmojisPerCodePoint ==
  \A k \in DOMAIN Records :
    \A r \in {Records[k]} :
      /\ Len(r.emojis) = Cardinality(EmojiIndexes(r.message))
      /\ \A i \in EmojiIndexes(r.message) :
           r.emojis[Cardinality({ j \in EmojiIndexes(r.message) : j <= i })]
             = r.message[i]
      /\ r.emoji_count = Len(r.emojis)

\* A face repeated around a letter is listed twice; thumbs up with a skin
\* tone is two entries.
C19_Witness ==
  /\ ProbeParsed /\ ProbeKind = "emoji"
  /\ Records[ProbeAt].message = <<128512, 104, 128512>>
  /\ Records[ProbeAt].emojis = <<128512, 128512>>
  /\ Records[ProbeAt].emoji_count = 2

\* C20: no record's user begins or ends with whitespace, and the labels that
\* differ from "A" only in whitespace around it all yield the user "A".
C20_UserTrimmed ==
  /\ \A k \in DOMAIN Records :
       \A user \in {Records[k].user} :
         user # << >> => ~IsSpace(user[1]) /\ ~IsSpace(user[Len(user)])
  /\ (/\ ProbeParsed /\ ProbeKind = "user"
      /\ \A i \in DOMAIN transcript.blocks[ProbeAt].user :
           transcript.blocks[ProbeAt].user[i] \in {Ord(" "), Ord("A")})
       => Records[ProbeAt].user = Txt(<<"A">>)

\* The label " A  " of a header has become the user "A".
C20_Witness ==
  /\ ProbeParsed /\ ProbeKind = "user"
  /\ transcript.blocks[ProbeAt].user = Txt(<<" ", "A", " ", " ">>)
  /\ Records[ProbeAt].user = Txt(<<"A">>)

\* The user labels of the blocks that have a "user:" part.
LabelsWithColon ==
  { transcript.blocks[k].user :
      k \in { j \in DOMAIN transcript.blocks : transcript.blocks[j].colon # << >> } }

\* C21 (as claimed): the user of every record is the text between " - " and
\* the first ":" of the record's own header line, so it holds no line feed
\* and is the label of a block that has a "user:" part, also when the
\* transcript holds a system notice.
C21_UserWithinHeaderLine ==
  /\ \A k \in DOMAIN Records :
       \A i \in DOMAIN Records[k].user : Records[k].user[i] # 10
  /\ (ProbeParsed /\ ProbeKind = "notice")
       => \A k \in DOMAIN Records : Records[k].user \in LabelsWithColon

\* The table the analyzer calls of the last run were made on.
Table == session_df.rows

\* C23 (as claimed): get_response_times has a row for a pair (From, To) of
\* different users exactly when some message of To follows a message of
\* From in timestamp order by at most 1440 minutes, and a pair with one such
\* gap has that gap as its average: no other gap is left out.
C23_ResponseTimesEveryGap ==
  (analysis.get_response_times.called /\ Len(Table) >= 2) =>
    LET ordered == SortByTimestamp(Table)
        gap(k) == Seconds(ordered[k].timestamp) - Seconds(ordered[k - 1].timestamp)
        counts(k) ==
          k > 1 /\ ordered[k].user # ordered[k - 1].user /\ gap(k) <= 1440 * 60
        of(row) ==
          { k \in DOMAIN ordered :
              /\ counts(k)
              /\ ordered[k - 1].user = row.From /\ ordered[k].user = row.To }
    IN  /\ analysis.get_response_times.kind = "DataFrame"
        /\ \A k \in DOMAIN ordered :
             counts(k) =>
               \E row \in analysis.get_response_times.rows :
                 row.From = ordered[k - 1].user /\ row.To = ordered[k].user
        /\ \A row \in analysis.get_response_times.rows :
             /\ of(row) # {}
             /\ \A k \in of(row) :
                  of(row) = {k} => row.avg * 60 = gap(k) * 100

\* The values of a dict added up.
Total(dict) ==
  LET acc[k \in 0..Len(dict)] == IF k = 0 THEN 0 ELSE acc[k - 1] + dict[k][2]
  IN  acc[Len(dict)]

\* Each key of the dict has the count of the rows of the table whose column
\* holds it.
CountsRows(dict, col) ==
  \A i \in DOMAIN dict :
    dict[i][2] = Cardinality({ k \in DOMAIN Table : Table[k][col] = dict[i][1] })

\* C24: for a table that is not empty get_time_analysis returns an hourly
\* dict with the keys 0..23 in ascending order, a daily dict with the seven
\* weekdays from Monday to Sunday and a monthly dict with the twelve months
\* from January to December; each key has the count of its records, 0 when
\* it has none, and the counts of each dict add up to the number of records.
C24_TimeAnalysisTotal ==
  (analysis.get_time_analysis.called /\ Table # << >>) =>
    /\ Keys(analysis.get_time_analysis.hourly) = [i \in 1..24 |-> i - 1]
    /\ Keys(analysis.get_time_analysis.daily)
         = << "Monday", "Tuesday", "Wednesday", "Thursday", "Friday",
              "Saturday", "Sunday" >>
    /\ Keys(analysis.get_time_analysis.monthly)
         = << "January", "February", "March", "April", "May", "June", "July",
              "August", "September", "October", "November", "December" >>
    /\ CountsRows(analysis.get_time_analysis.hourly, "hour")
    /\ CountsRows(analysis.get_time_analysis.daily, "day")
    /\ CountsRows(analysis.get_time_analysis.monthly, "month")
    /\ Total(analysis.get_time_analysis.hourly) = Len(Table)
    /\ Total(analysis.get_time_analysis.daily) = Len(Table)
    /\ Total(analysis.get_time_analysis.monthly) = Len(Table)

\* The worked example analysed: three messages in hour 9 of a Monday in
\* January, and no message in hour 8.
C24_Witness ==
  /\ ScenarioParsed
  /\ analysis.get_time_analysis.called
  /\ analysis.get_time_analysis.hourly[10] = <<9, 3>>
  /\ analysis.get_time_analysis.hourly[9] = <<8, 0>>
  /\ analysis.get_time_analysis.daily[1] = <<"Monday", 3>>
  /\ analysis.get_time_analysis.monthly[1] = <<"January", 3>>

\* C25 (as claimed): for a table that is not empty, the duration in days by
\* which get_user_stats divides equals the 'Chat Duration (days)' of
\* get_basic_stats, and both are at least 1.
C25_SameDuration ==
  (/\ analysis.get_basic_stats.called /\ analysis.get_user_stats.called
   /\ Table # << >>)
    => /\ analysis.get_user_stats.chat_duration
            = analysis.get_basic_stats.duration_days
       /\ analysis.get_basic_stats.duration_days >= 1
       /\ analysis.get_user_stats.chat_duration >= 1

\* The rows of a have the columns of the rows of b with the same values.
SameRecords(a, b) ==
  /\ Len(a) = Len(b)
  /\ \A k \in DOMAIN b : \A col \in DOMAIN b[k] : a[k][col] = b[k][col]

\* C22: in a session with any sequence of uploads, st.session_state.df gets
\* a new value only in a run whose parse returned a table that is not empty,
\* and that table is the new value; a run whose parse returned None or an
\* empty table leaves it as it is, shows the failure message and, when the
\* session holds records of an earlier upload, renders the analysis of
\* those.
C22_ReplacedOnlyByNonEmptyParse ==
  [][ /\ (session_df' # session_df)
           => /\ rerun /\ uploaded_file.some
              /\ call'.kind = "DataFrame" /\ call'.df # << >>
              /\ shown' = "success"
              /\ SameRecords(session_df'.rows, call'.df)
      /\ (/\ rerun /\ ~rerun' /\ uploaded_file.some /\ raised' = ""
          /\ (call'.kind = "None" \/ call'.df = << >>))
           => /\ session_df' = session_df
              /\ shown' = "failed to process"
              /\ (~session_df.none /\ session_df.rows # << >>)
                   => /\ analysis'.get_basic_stats.called
                      /\ analysis'.get_basic_stats.total_messages
                           = Len(session_df.rows)
    ]_vars

\* The worked example was uploaded, then the transcript whose only message
\* has no date: the failure message is shown over the analysis of the three
\* records of the worked example.
C22_Witness ==
  /\ ~rerun
  /\ transcript.blocks = <<BadBlock>>
  /\ call.kind = "DataFrame" /\ call.df = << >>
  /\ shown = "failed to process"
  /\ Len(session_df.rows) = 3 /\ session_df.rows[2].user = Bob
  /\ analysis.get_basic_stats.called
  /\ analysis.get_basic_stats.total_messages = 3

=============================================================================
